---------------------------- MODULE Spec2Model ----------------------------
(***************************************************************************)
(* makcu/__init__.py: the factory function                                 *)
(*                                                                         *)
(*     def create_controller(port=None, debug=False, send_init=True):      *)
(*         makcu = MakcuController(port=port, debug=debug,                 *)
(*                                 send_init=send_init)                    *)
(*         makcu.connect()                                                 *)
(*         return makcu                                                    *)
(*                                                                         *)
(* A caller makes a bounded sequence of calls.  Each call is a frame that  *)
(* steps through lines 6, 7 and 8; controllers live on a heap and are      *)
(* identified by their index in it (0 stands for "no object": an unbound   *)
(* local, or no value handed to the caller).  MakcuController itself lives *)
(* in makcu/controller.py: its constructor and its connect() either        *)
(* complete or raise, and a connect() that completes has established the   *)
(* connection.                                                             *)
(***************************************************************************)
EXTENDS Naturals, Sequences, FiniteSets

VARIABLES heap, frames

vars == <<heap, frames>>

\* Number of calls the caller makes.
MaxCalls == 2

\* Python's None, as a port value.
None == "None"

\* The port values a caller passes.
Ports == {None, "COM3"}

\* The parameters of create_controller.
ParamNames == {"port", "debug", "send_init"}

\* The error kinds the package exports; what connect() raises.
Errors == {"MakcuError", "MakcuConnectionError"}

\* What the constructor raises: the package's general error.
CtorErrors == {"MakcuError"}

-----------------------------------------------------------------------------
(* The function, piece by piece                                            *)

\* A plausible slip: the handshake flag off by default.
DefaultsInitOff == [port |-> None, debug |-> FALSE, send_init |-> FALSE]

\* def create_controller(port=None, debug=False, send_init=True)
Defaults == [port |-> None, debug |-> FALSE, send_init |-> TRUE]

\* Binding of the call's arguments to the parameters: a supplied argument is
\* the parameter's value, an omitted one takes the default.
BindArgs(args) ==
    [p \in ParamNames |-> IF p \in DOMAIN args THEN args[p] ELSE Defaults[p]]

\* A plausible slip: the two boolean flags crossed over.
CtorKwargsCrossed(params) ==
    [port |-> params.port, debug |-> params.send_init,
     send_init |-> params.debug]

\* MakcuController(port=port, debug=debug, send_init=send_init)
CtorKwargs(params) ==
    [port |-> params.port, debug |-> params.debug,
     send_init |-> params.send_init]

\* The state of a controller as its constructor leaves it.  calls lists the
\* methods create_controller has invoked on it, by the frame that made it.
NewController(kwargs, c) ==
    [kwargs |-> kwargs, by |-> c, calls |-> <<"__init__">>,
     connected |-> FALSE, raised |-> "none"]

\* A plausible slip: controllers cached by their arguments.
ConstructCached(h, kwargs, c) ==
    IF \E i \in 1..Len(h) : h[i].kwargs = kwargs
    THEN [heap |-> h,
          id |-> CHOOSE i \in 1..Len(h) : h[i].kwargs = kwargs]
    ELSE [heap |-> Append(h, NewController(kwargs, c)), id |-> Len(h) + 1]

\* makcu = MakcuController(...): a constructor call makes a new object.
Construct(h, kwargs, c) ==
    [heap |-> Append(h, NewController(kwargs, c)), id |-> Len(h) + 1]

\* A connect() that completes has established the connection.
ConnectEffect(o) == [o EXCEPT !.connected = TRUE]

\* A plausible slip: connect() left out.
NextLineNoConnect(pc) ==
    CASE pc = "line6" -> "line8"
      [] pc = "line7" -> "line8"
      [] pc = "line8" -> "returned"

\* Control flow of the body: line 6, line 7, line 8, back to the caller.
NextLine(pc) ==
    CASE pc = "line6" -> "line7"
      [] pc = "line7" -> "line8"
      [] pc = "line8" -> "returned"

\* A plausible slip: "except: pass" around makcu.connect().
OnRaiseSwallow(h, f, e) ==
    IF f.pc = "line7"
    THEN [heap |-> h, frame |-> [f EXCEPT !.pc = NextLine(f.pc)]]
    ELSE [heap |-> h,
          frame |-> [f EXCEPT !.pc = "raised", !.err = e,
                              !.trace = Append(@, "raise")]]

\* A plausible slip: the error replaced by the package's general one.
OnRaiseWrap(h, f, e) ==
    [heap |-> h,
     frame |-> [f EXCEPT !.pc = "raised", !.err = "MakcuError",
                         !.trace = Append(@, "raise")]]

\* A plausible slip: the failing statement tried again.
OnRaiseRetry(h, f, e) == [heap |-> h, frame |-> f]

\* A plausible slip: the controller disconnected before the error leaves.
OnRaiseCleanup(h, f, e) ==
    [heap |-> IF f.makcu \in 1..Len(h)
              THEN [h EXCEPT ![f.makcu] =
                      [@ EXCEPT !.calls = Append(@, "disconnect"),
                                !.connected = FALSE]]
              ELSE h,
     frame |-> [f EXCEPT !.pc = "raised", !.err = e,
                         !.trace = Append(@, "raise")]]

\* The body has no try/except: an error raised by a statement ends the call
\* and reaches the caller as it is, and nothing else is done to the heap.
OnRaise(h, f, e) ==
    [heap |-> h,
     frame |-> [f EXCEPT !.pc = "raised", !.err = e,
                         !.trace = Append(@, "raise")]]

\* A plausible slip: the return statement without its value.
ReturnNone(f) == 0

\* return makcu
ReturnValue(f) == f.makcu

-----------------------------------------------------------------------------
(* The state machine                                                       *)

Finished(f) == f.pc \in {"returned", "raised"}

\* The argument lists a caller can pass: any subset of the parameters.
CallArgs ==
    UNION { { [p \in S |-> CASE p = "port" -> port
                             [] p = "debug" -> debug
                             [] p = "send_init" -> send_init] :
              port \in Ports, debug \in BOOLEAN, send_init \in BOOLEAN }
            : S \in SUBSET ParamNames }

Init ==
    /\ heap = <<>>
    /\ frames = <<>>

\* The caller calls create_controller(...); the previous call has ended.
Call ==
    /\ Len(frames) < MaxCalls
    /\ \A c \in 1..Len(frames) : Finished(frames[c])
    /\ \E args \in CallArgs :
         frames' = Append(frames,
                      [args |-> args, params |-> BindArgs(args),
                       pc |-> "line6", makcu |-> 0, ret |-> 0,
                       err |-> "none", trace |-> <<>>])
    /\ UNCHANGED heap

\* Line 6, the constructor completes: makcu is bound to the new object.
ConstructOk ==
    \E c \in 1..Len(frames) :
      /\ frames[c].pc = "line6"
      /\ LET f == frames[c]
             r == Construct(heap, CtorKwargs(f.params), c)
         IN /\ heap' = r.heap
            /\ frames' = [frames EXCEPT ![c] =
                 [f EXCEPT !.makcu = r.id, !.pc = NextLine(f.pc),
                           !.trace = Append(@, "construct")]]

\* Line 6, the constructor raises: nothing is bound.
ConstructRaise ==
    \E c \in 1..Len(frames), e \in CtorErrors :
      /\ frames[c].pc = "line6"
      /\ LET f == [frames[c] EXCEPT !.trace = Append(@, "construct")]
             r == OnRaise(heap, f, e)
         IN /\ heap' = r.heap
            /\ frames' = [frames EXCEPT ![c] = r.frame]

\* Line 7, makcu.connect() completes.
ConnectOk ==
    \E c \in 1..Len(frames) :
      /\ frames[c].pc = "line7"
      /\ LET f == frames[c] IN
           /\ heap' = [heap EXCEPT ![f.makcu] =
                ConnectEffect([@ EXCEPT !.calls = Append(@, "connect")])]
           /\ frames' = [frames EXCEPT ![c] =
                [f EXCEPT !.pc = NextLine(f.pc),
                          !.trace = Append(@, "connect")]]

\* Line 7, makcu.connect() raises.
ConnectRaise ==
    \E c \in 1..Len(frames), e \in Errors :
      /\ frames[c].pc = "line7"
      /\ LET f == [frames[c] EXCEPT !.trace = Append(@, "connect")]
             h == [heap EXCEPT ![f.makcu] =
                    [@ EXCEPT !.calls = Append(@, "connect"), !.raised = e]]
             r == OnRaise(h, f, e)
         IN /\ heap' = r.heap
            /\ frames' = [frames EXCEPT ![c] = r.frame]

\* Line 8, return makcu.
Return ==
    \E c \in 1..Len(frames) :
      /\ frames[c].pc = "line8"
      /\ LET f == frames[c] IN
           frames' = [frames EXCEPT ![c] =
             [f EXCEPT !.ret = ReturnValue(f), !.pc = NextLine(f.pc),
                       !.trace = Append(@, "return")]]
      /\ UNCHANGED heap

Next ==
    \/ Call
    \/ ConstructOk
    \/ ConstructRaise
    \/ ConnectOk
    \/ ConnectRaise
    \/ Return

Spec == Init /\ [][Next]_vars

-----------------------------------------------------------------------------
(* Properties                                                              *)

\* How often x occurs in the sequence s.
Count(s, x) == Cardinality({i \in DOMAIN s : s[i] = x})

\* The calls that have returned to their caller.
ReturnedCalls == {c \in 1..Len(frames) : frames[c].pc = "returned"}

\* The controllers constructed by call c.
MadeBy(c) == {i \in 1..Len(heap) : heap[i].by = c}

\* C1: a call that returns normally hands back an object on which connect()
\* has been invoked exactly once, whatever the arguments were.
C1_ConnectExactlyOnce ==
    \A c \in ReturnedCalls :
      /\ frames[c].ret \in 1..Len(heap)
      /\ Count(heap[frames[c].ret].calls, "connect") = 1

\* C1, its case: a call with a port given has returned a controller whose
\* calls are the constructor and one connect().
C1_Witness ==
    \E c \in ReturnedCalls :
      /\ "port" \in DOMAIN frames[c].args
      /\ frames[c].args["port"] = "COM3"
      /\ frames[c].ret \in 1..Len(heap)
      /\ heap[frames[c].ret].calls = <<"__init__", "connect">>

\* C2: the returned object is the instance the call bound at line 6, the only
\* one this call constructed, constructed once, and its constructor received
\* each of port, debug and send_init as the parameter of the same name, so a
\* value the caller supplied arrives unchanged.
C2_ReturnsConstructedInstance ==
    \A c \in ReturnedCalls :
      LET f == frames[c] IN
        /\ f.ret \in 1..Len(heap)
        /\ f.ret = f.makcu
        /\ MadeBy(c) = {f.ret}
        /\ Count(heap[f.ret].calls, "__init__") = 1
        /\ \A p \in ParamNames : heap[f.ret].kwargs[p] = f.params[p]
        /\ \A p \in DOMAIN f.args : heap[f.ret].kwargs[p] = f.args[p]

\* C2, its case: a call given all three arguments, with the two flags
\* different, has returned the controller it constructed.
C2_Witness ==
    \E c \in ReturnedCalls :
      /\ DOMAIN frames[c].args = ParamNames
      /\ frames[c].args["debug"] = TRUE
      /\ frames[c].args["send_init"] = FALSE
      /\ frames[c].ret \in MadeBy(c)
      /\ heap[frames[c].ret].kwargs =
           [port |-> frames[c].args["port"], debug |-> TRUE,
            send_init |-> FALSE]

\* C3: an object handed back to the caller is connected.
C3_ReturnedIsConnected ==
    \A c \in ReturnedCalls :
      /\ frames[c].ret \in 1..Len(heap)
      /\ heap[frames[c].ret].connected

\* C3, its case: one call has failed in connect() and returned nothing,
\* another has returned a connected controller.
C3_Witness ==
    /\ \E c \in ReturnedCalls :
         frames[c].ret \in 1..Len(heap) /\ heap[frames[c].ret].connected
    /\ \E c \in 1..Len(frames) :
         /\ frames[c].pc = "raised"
         /\ frames[c].makcu \in 1..Len(heap)
         /\ ~heap[frames[c].makcu].connected

\* C4: when connect() raises, the call ends with that very error and hands
\* back no object.
C4_ConnectErrorPropagates ==
    \A c \in 1..Len(frames) :
      LET f == frames[c] IN
        (f.makcu \in 1..Len(heap) /\ heap[f.makcu].raised # "none") =>
          /\ f.pc = "raised"
          /\ f.err = heap[f.makcu].raised
          /\ f.ret = 0

\* C4, its case: connect() has raised the connection error and the call has
\* ended with it.
C4_Witness ==
    \E c \in 1..Len(frames) :
      /\ frames[c].makcu \in 1..Len(heap)
      /\ heap[frames[c].makcu].raised = "MakcuConnectionError"
      /\ frames[c].err = "MakcuConnectionError"
      /\ frames[c].pc = "raised"

\* C5: the events of one call are construct, then connect, then return, cut
\* short only by an error: connect() is never invoked on an object whose
\* constructor has not completed, and the call never returns before
\* connect() has completed.
C5_ConstructConnectReturn ==
    /\ \A c \in 1..Len(frames) :
         /\ frames[c].trace \in
              { <<>>,
                <<"construct">>,
                <<"construct", "raise">>,
                <<"construct", "connect">>,
                <<"construct", "connect", "raise">>,
                <<"construct", "connect", "return">> }
         /\ frames[c].pc = "line7" => frames[c].makcu \in 1..Len(heap)
    /\ \A i \in 1..Len(heap) : heap[i].calls[1] = "__init__"

\* C5, its case: a call has gone through all three events.
C5_Witness ==
    \E c \in 1..Len(frames) :
      frames[c].trace = <<"construct", "connect", "return">>

\* C6: no retry.  Within one call there is at most one construction and at
\* most one connect(), and a call that failed made exactly the attempts that
\* lead to its error.
C6_NoRetry ==
    \A c \in 1..Len(frames) :
      LET f == frames[c] IN
        /\ Count(f.trace, "construct") <= 1
        /\ Count(f.trace, "connect") <= 1
        /\ Cardinality(MadeBy(c)) <= 1
        /\ \A i \in MadeBy(c) : Count(heap[i].calls, "connect") <= 1
        /\ f.pc = "raised" =>
             f.trace \in { <<"construct", "raise">>,
                           <<"construct", "connect", "raise">> }

\* C6, its case: one call has failed in the constructor and one in connect().
C6_Witness ==
    /\ \E c \in 1..Len(frames) :
         /\ frames[c].pc = "raised"
         /\ frames[c].trace = <<"construct", "raise">>
         /\ MadeBy(c) = {}
    /\ \E c \in 1..Len(frames) :
         /\ frames[c].pc = "raised"
         /\ frames[c].trace = <<"construct", "connect", "raise">>
         /\ Cardinality(MadeBy(c)) = 1

\* C7: no state is kept between calls.  Every call that got past line 6 has
\* a controller of its own, the calls that returned have returned as many
\* distinct objects as there are such calls, and each of those objects was
\* constructed once and connected once.
C7_FreshControllerPerCall ==
    /\ \A c, d \in 1..Len(frames) :
         (c # d /\ frames[c].makcu # 0 /\ frames[d].makcu # 0) =>
           frames[c].makcu # frames[d].makcu
    /\ Cardinality({frames[c].ret : c \in ReturnedCalls}) =
         Cardinality(ReturnedCalls)
    /\ \A c \in ReturnedCalls :
         /\ frames[c].ret \in MadeBy(c)
         /\ heap[frames[c].ret].calls = <<"__init__", "connect">>

\* C7, its case: two calls with the same arguments have both returned.
C7_Witness ==
    \E c, d \in ReturnedCalls :
      /\ c # d
      /\ frames[c].args = frames[d].args
      /\ frames[c].ret # frames[d].ret

\* C8: an omitted argument reaches the constructor as its default: port
\* None, debug false, send_init true.
C8_DefaultsApplied ==
    \A c \in 1..Len(frames) :
      LET f == frames[c] IN
        f.makcu \in 1..Len(heap) =>
          /\ "port" \notin DOMAIN f.args => heap[f.makcu].kwargs.port = "None"
          /\ "debug" \notin DOMAIN f.args => heap[f.makcu].kwargs.debug = FALSE
          /\ "send_init" \notin DOMAIN f.args =>
               heap[f.makcu].kwargs.send_init = TRUE

\* C8, its case: create_controller() with no argument has constructed its
\* controller.
C8_Witness ==
    \E c \in 1..Len(frames) :
      /\ DOMAIN frames[c].args = {}
      /\ frames[c].makcu \in 1..Len(heap)
      /\ heap[frames[c].makcu].by = c
      /\ heap[frames[c].makcu].kwargs =
           [port |-> "None", debug |-> FALSE, send_init |-> TRUE]

\* C9: a step of create_controller does nothing to a controller but invoke
\* connect() on it, once, right after its construction: no other method is
\* ever invoked, also not when connect() fails, and the values it was
\* constructed with stay as they are.
C9_OnlyConstructAndConnect ==
    [][ /\ Len(heap') >= Len(heap)
        /\ \A i \in 1..Len(heap) :
             /\ heap'[i].kwargs = heap[i].kwargs
             /\ \/ heap'[i].calls = heap[i].calls
                \/ /\ heap[i].calls = <<"__init__">>
                   /\ heap'[i].calls = <<"__init__", "connect">>
        /\ \A i \in (Len(heap) + 1)..Len(heap') :
             heap'[i].calls = <<"__init__">> ]_vars

\* C9, its case: connect() has failed on a controller, the call has ended,
\* and the controller has seen its constructor and that one connect().
C9_Witness ==
    \E c \in 1..Len(frames) :
      /\ frames[c].pc = "raised"
      /\ frames[c].makcu \in 1..Len(heap)
      /\ heap[frames[c].makcu].calls = <<"__init__", "connect">>
      /\ heap[frames[c].makcu].kwargs = CtorKwargs(frames[c].params)

=============================================================================
